---- MODULE Spec2Model ----
(***************************************************************************)
(* fast-bookmark: the bookmark storage service (src/api/bookmarks.py,      *)
(* src/models.py, src/core/db.py).                                         *)
(*                                                                         *)
(* The three handlers are plain `def` endpoints, so FastAPI runs each      *)
(* request on a worker thread with a Session of its own (get_db).  Every   *)
(* statement a handler sends to SQLite is one atomic step on the shared    *)
(* table; the steps of different requests interleave freely.  pysqlite     *)
(* opens no transaction for a SELECT, so two SELECTs of one request are    *)
(* two separate reads of the table.                                        *)
(***************************************************************************)
EXTENDS Integers, Sequences, FiniteSets, TLC

\* ---------------------------------------------------------------- bounds
NumWorkers == 2      \* request threads that can be inside a handler at once
MaxRequests == 3     \* requests accepted in one behaviour
MaxClock == 1        \* last tick of the wall clock

Workers == 1..NumWorkers

\* ------------------------------------------------------------ input data
NULL == "<null>"         \* JSON null / Python None
MISSING == "<missing>"   \* key absent from the request body
NoRow == [none |-> TRUE] \* the None a query gives when no row matches

Url(s, h, p, pa) == [scheme |-> s, host |-> h, port |-> p, path |-> pa]

Body(l, u) == [label |-> l, url |-> u]

\* the request bodies tried; port 0 stands for "no port written"
Bodies ==
    { Body("X", Url("http", "example.com", 0, "/a")),
      Body(NULL, Url("HTTP", "EXAMPLE.COM", 80, "/a")),
      Body("Docs", Url("https", "docs.rs", 0, "")),
      Body("Docs2", Url("https", "docs.rs", 443, "/")),
      Body("X", Url("http", "example.com", 8080, "/a")),
      Body(MISSING, Url("http", "example.com", 0, "/a")),
      Body("X", Url("", "example.com", 0, "")) }

DeleteIds == 1..MaxRequests

\* ------------------------------------------------- AnyHttpUrl (pydantic)
Lower(s) ==
    CASE s = "HTTP" -> "http"
      [] s = "HTTPS" -> "https"
      [] s = "EXAMPLE.COM" -> "example.com"
      [] s = "DOCS.RS" -> "docs.rs"
      [] OTHER -> s

DefaultPort(scheme) ==
    CASE scheme = "http" -> 80
      [] scheme = "https" -> 443
      [] OTHER -> 0

\* url: AnyHttpUrl -- the field accepts http and https urls with a host
url_valid(u) == Lower(u.scheme) \in {"http", "https"} /\ u.host # ""

\* bookmark.url.encoded_string(): scheme and host in lower case, the default
\* port dropped, an empty path written "/"
encoded_string(u) ==
    LET s == Lower(u.scheme) IN
    Url(s, Lower(u.host),
        IF u.port = DefaultPort(s) THEN 0 ELSE u.port,
        IF u.path = "" THEN "/" ELSE u.path)

\* BookmarkBase: label is Optional[str] without a default (required, may be
\* null); url must validate
BookmarkBase_valid(body) == body.label # MISSING /\ url_valid(body.url)

\* ------------------------------------------------------------------ state
VARIABLES
    rows,            \* table bookmarks, in rowid order
    clock,           \* datetime.now()
    date_created_default,   \* Column default of BookMarks.date_created
    date_modified_default,  \* Column default of BookMarks.date_modified
    workers,         \* per request thread: where its handler stands
    resp,            \* the response sent last
    nreq,            \* requests accepted so far
    log,             \* history: every row inserted, with the time of the insert
    deleted          \* history: number of rows removed by DELETE statements

vars == <<rows, clock, date_created_default, date_modified_default,
          workers, resp, nreq, log, deleted>>

Idle == [pc |-> "idle"]

\* ----------------------------------------------------------- table helpers
RowIds(rs) == { rs[i].id : i \in DOMAIN rs }

RowUrls(rs) == { rs[i].url : i \in DOMAIN rs }

SetMax(S) == CHOOSE x \in S : \A y \in S : y <= x

\* id is an INTEGER PRIMARY KEY without AUTOINCREMENT: SQLite gives a new row
\* the largest rowid in the table plus one
next_rowid_no_increment(rs) == IF rs = <<>> THEN 1 ELSE SetMax(RowIds(rs))

next_rowid(rs) == IF rs = <<>> THEN 1 ELSE SetMax(RowIds(rs)) + 1

\* db.query(BookMarks).filter(BookMarks.url == u).first()
query_first_none(rs, u) == NoRow

query_first(rs, u) ==
    IF \E i \in DOMAIN rs : rs[i].url = u
    THEN rs[CHOOSE i \in DOMAIN rs :
                /\ rs[i].url = u
                /\ \A j \in DOMAIN rs : rs[j].url = u => i <= j]
    ELSE NoRow

\* db.get(BookMarks, id)
db_get_any(rs, id) == IF rs = <<>> THEN NoRow ELSE rs[1]

db_get(rs, id) ==
    IF id \in RowIds(rs)
    THEN rs[CHOOSE i \in DOMAIN rs : rs[i].id = id]
    ELSE NoRow

\* the row insert(BookMarks).values(label=..., url=...) writes: the id from
\* SQLite, the timestamps from the column defaults
new_row_raw_url(rs, body) ==
    [id |-> next_rowid(rs), label |-> body.label, url |-> body.url,
     date_created |-> date_created_default,
     date_modified |-> date_modified_default]

new_row(rs, body) ==
    [id |-> next_rowid(rs), label |-> body.label,
     url |-> encoded_string(body.url),
     date_created |-> date_created_default,
     date_modified |-> date_modified_default]

\* the table after the INSERT; the table has no UNIQUE constraint on url
insert_unique(rs, row) == IF row.url \in RowUrls(rs) THEN rs ELSE Append(rs, row)

insert(rs, row) == Append(rs, row)

\* DELETE FROM bookmarks WHERE id = ?
delete_all(rs, id) == <<>>

delete_where_id(rs, id) == SelectSeq(rs, LAMBDA r : r.id # id)

\* BookmarkPublic(**row.__dict__): the url is validated again on the way out
BookmarkPublic(row) == [row EXCEPT !.url = encoded_string(row.url)]

PublicAll(rs) == [i \in DOMAIN rs |-> BookmarkPublic(rs[i])]

\* ------------------------------------------------------------------- Init
\* The state once the application is imported: the table is empty and both
\* column defaults have been evaluated, one datetime.now() after the other.
Init ==
    /\ rows = <<>>
    /\ date_created_default = 0
    /\ date_modified_default \in {0, 1}
    /\ clock = date_modified_default
    /\ workers = [w \in Workers |-> Idle]
    /\ resp = [op |-> "none"]
    /\ nreq = 0
    /\ log = <<>>
    /\ deleted = 0

\* time passes
Tick ==
    /\ clock < MaxClock
    /\ clock' = clock + 1
    /\ UNCHANGED <<rows, date_created_default, date_modified_default,
                   workers, resp, nreq, log, deleted>>

\* a request is taken by a free thread of the pool (the threads are alike: the
\* first free one stands for any)
Accept(w) ==
    /\ workers[w] = Idle
    /\ \A v \in Workers : v < w => workers[v] # Idle
    /\ nreq < MaxRequests
    /\ nreq' = nreq + 1

\* ------------------------------------------------- POST /bookmarks/
\* the body does not validate as BookmarkBase: 422 before the handler runs
create_item_invalid(w, body) ==
    /\ Accept(w)
    /\ ~BookmarkBase_valid(body)
    /\ resp' = [op |-> "create", status |-> 422]
    /\ UNCHANGED <<rows, clock, date_created_default, date_modified_default,
                   workers, log, deleted>>

\* lines 49-52: the existence query, and the 409 when it finds a row
create_item_check(w, body) ==
    /\ Accept(w)
    /\ BookmarkBase_valid(body)
    /\ LET bm == query_first(rows, encoded_string(body.url)) IN
       IF bm # NoRow
       THEN /\ resp' = [op |-> "create", status |-> 409,
                        detail |-> [label |-> bm.label, url |-> bm.url]]
            /\ UNCHANGED workers
       ELSE /\ workers' = [workers EXCEPT ![w] =
                              [pc |-> "create_insert", bookmark |-> body]]
            /\ UNCHANGED resp
    /\ UNCHANGED <<rows, clock, date_created_default, date_modified_default,
                   log, deleted>>

\* lines 54-62: INSERT ... RETURNING *, commit, return the row
create_item_insert(w) ==
    /\ workers[w].pc = "create_insert"
    /\ LET row == new_row(rows, workers[w].bookmark) IN
       /\ rows' = insert(rows, row)
       /\ log' = Append(log, [row |-> row, at |-> clock])
       /\ resp' = [op |-> "create", status |-> 200, body |-> BookmarkPublic(row)]
    /\ workers' = [workers EXCEPT ![w] = Idle]
    /\ UNCHANGED <<clock, date_created_default, date_modified_default,
                   nreq, deleted>>

\* ------------------------------------------------- GET /bookmarks/
\* lines 38-39: SELECT count(*)
read_items_count(w) ==
    /\ Accept(w)
    /\ workers' = [workers EXCEPT ![w] = [pc |-> "read_select", count |-> Len(rows)]]
    /\ UNCHANGED <<rows, clock, date_created_default, date_modified_default,
                   resp, log, deleted>>

\* lines 40-44: SELECT the rows, build the response
read_items_select(w) ==
    /\ workers[w].pc = "read_select"
    /\ resp' = [op |-> "list", status |-> 200,
                data |-> PublicAll(rows), count |-> workers[w].count]
    /\ workers' = [workers EXCEPT ![w] = Idle]
    /\ UNCHANGED <<rows, clock, date_created_default, date_modified_default,
                   nreq, log, deleted>>

\* ------------------------------------------------- DELETE /bookmarks/{id}
\* lines 67-70: load the row, 404 when there is none
delete_item_get(w, id) ==
    /\ Accept(w)
    /\ LET bm == db_get(rows, id) IN
       IF bm = NoRow
       THEN /\ resp' = [op |-> "delete", status |-> 404,
                        detail |-> "Bookmark not found"]
            /\ UNCHANGED workers
       ELSE /\ workers' = [workers EXCEPT ![w] = [pc |-> "delete_commit", bm |-> bm]]
            /\ UNCHANGED resp
    /\ UNCHANGED <<rows, clock, date_created_default, date_modified_default,
                   log, deleted>>

\* lines 71-74: DELETE by primary key, commit, confirm with the loaded fields.
\* When another request removed the row after db.get, the DELETE matches no
\* row (the ORM only warns) and the handler still answers 200.
delete_item_commit(w) ==
    /\ workers[w].pc = "delete_commit"
    /\ LET bm == workers[w].bm IN
       /\ rows' = delete_where_id(rows, bm.id)
       /\ deleted' = deleted + (Len(rows) - Len(rows'))
       /\ resp' = [op |-> "delete", status |-> 200,
                   text |-> [id |-> bm.id, label |-> bm.label, url |-> bm.url]]
    /\ workers' = [workers EXCEPT ![w] = Idle]
    /\ UNCHANGED <<clock, date_created_default, date_modified_default, nreq, log>>

\* ------------------------------------------------------------------- Next
CreateInvalid == \E w \in Workers, body \in Bodies : create_item_invalid(w, body)
CreateCheck == \E w \in Workers, body \in Bodies : create_item_check(w, body)
CreateInsert == \E w \in Workers : create_item_insert(w)
ReadCount == \E w \in Workers : read_items_count(w)
ReadSelect == \E w \in Workers : read_items_select(w)
DeleteGet == \E w \in Workers, id \in DeleteIds : delete_item_get(w, id)
DeleteCommit == \E w \in Workers : delete_item_commit(w)

Next ==
    \/ Tick
    \/ CreateInvalid
    \/ CreateCheck
    \/ CreateInsert
    \/ ReadCount
    \/ ReadSelect
    \/ DeleteGet
    \/ DeleteCommit

Spec == Init /\ [][Next]_vars

\* ------------------------------------------------------- claim vocabulary
Range(f) == { f[i] : i \in DOMAIN f }

\* how many rows of rs carry url u
CountUrl(rs, u) == Cardinality({ i \in DOMAIN rs : rs[i].url = u })

CreatedUrls == { log[i].row.url : i \in DOMAIN log }

ExampleA == Url("http", "example.com", 0, "/a")

\* C1: in every reachable state no two live bookmarks have the same
\* normalized url.
C1_UniqueUrls ==
    \A i, j \in DOMAIN rows : i # j => rows[i].url # rows[j].url

\* C2: a create whose normalized url is the url of a stored bookmark answers
\* 409 with that bookmark's label and url, and the table stays as it was.
C2_DuplicateRejected ==
    [][\A w \in Workers, body \in Bodies :
          (create_item_check(w, body) /\ encoded_string(body.url) \in RowUrls(rows))
          => /\ resp'.op = "create"
             /\ resp'.status = 409
             /\ \E i \in DOMAIN rows :
                   /\ rows[i].url = encoded_string(body.url)
                   /\ resp'.detail = [label |-> rows[i].label, url |-> rows[i].url]
             /\ rows' = rows
             /\ Len(rows') = Len(rows)
             /\ workers'[w] = Idle]_vars

C2_Witness ==
    /\ resp.op = "create"
    /\ resp.status = 409
    /\ \E i \in DOMAIN rows :
          resp.detail = [label |-> rows[i].label, url |-> rows[i].url]

\* C3: a create with a valid url that is not stored passes the check and its
\* insert appends exactly one row with the given label and the normalized
\* url, every earlier row untouched, answering 200 with that row; a list
\* read afterwards returns every stored row with its id, label and url.
C3_CreateAddsOne ==
    /\ [][\A w \in Workers, body \in Bodies :
             (create_item_check(w, body) /\ encoded_string(body.url) \notin RowUrls(rows))
             => /\ workers'[w] = [pc |-> "create_insert", bookmark |-> body]
                /\ rows' = rows]_vars
    /\ [][\A w \in Workers :
             create_item_insert(w)
             => LET b == workers[w].bookmark
                    n == Len(rows)
                IN /\ Len(rows') = n + 1
                   /\ SubSeq(rows', 1, n) = rows
                   /\ rows'[n + 1].label = b.label
                   /\ rows'[n + 1].url = encoded_string(b.url)
                   /\ resp'.op = "create"
                   /\ resp'.status = 200
                   /\ resp'.body.id = rows'[n + 1].id
                   /\ resp'.body.label = b.label
                   /\ resp'.body.url = encoded_string(b.url)]_vars
    /\ [][\A w \in Workers :
             read_items_select(w)
             => \A i \in DOMAIN rows :
                   \E j \in DOMAIN resp'.data :
                      /\ resp'.data[j].id = rows[i].id
                      /\ resp'.data[j].label = rows[i].label
                      /\ resp'.data[j].url = rows[i].url]_vars

\* a list response shows the bookmark that was posted as
\* (null, HTTP://EXAMPLE.COM:80/a) with the url http://example.com/a
C3_Witness ==
    /\ resp.op = "list"
    /\ \E j \in DOMAIN resp.data :
          /\ resp.data[j].label = NULL
          /\ resp.data[j].url = ExampleA
          /\ \E i \in DOMAIN log : log[i].row.id = resp.data[j].id

\* C4: delete of a stored id goes on to the DELETE, which removes exactly the
\* row with that id: one row fewer, the id gone, every other row unchanged
\* and in place, so a list read afterwards counts one less.
C4_DeleteRemovesOne ==
    /\ [][\A w \in Workers, id \in DeleteIds :
             (delete_item_get(w, id) /\ id \in RowIds(rows))
             => /\ workers'[w].pc = "delete_commit"
                /\ workers'[w].bm.id = id
                /\ rows' = rows]_vars
    /\ [][\A w \in Workers :
             (delete_item_commit(w) /\ workers[w].bm.id \in RowIds(rows))
             => LET id == workers[w].bm.id IN
                /\ Len(rows') = Len(rows) - 1
                /\ Len(PublicAll(rows')) = Len(PublicAll(rows)) - 1
                /\ id \notin RowIds(rows')
                /\ rows' = SelectSeq(rows, LAMBDA r : r.id # id)
                /\ \A i \in DOMAIN rows : rows[i].id # id => rows[i] \in Range(rows')
                /\ resp'.op = "delete"
                /\ resp'.status = 200
                /\ resp'.text.id = id]_vars

\* a delete has answered 200, a row is gone and another row is still stored
C4_Witness ==
    /\ resp.op = "delete"
    /\ resp.status = 200
    /\ deleted = 1
    /\ rows # <<>>
    /\ resp.text.id \notin RowIds(rows)

\* C5: delete of an id that is not stored answers 404 "Bookmark not found"
\* and changes nothing.
C5_DeleteNotFound ==
    [][\A w \in Workers, id \in DeleteIds :
          (delete_item_get(w, id) /\ id \notin RowIds(rows))
          => /\ resp' = [op |-> "delete", status |-> 404,
                         detail |-> "Bookmark not found"]
             /\ rows' = rows
             /\ workers' = workers]_vars

\* a 404 for an id that was created and has since been deleted
C5_Witness ==
    /\ resp.op = "delete"
    /\ resp.status = 404
    /\ deleted > 0
    /\ \E i \in DOMAIN log : log[i].row.id \notin RowIds(rows)

\* C6: every list response has count equal to the length of data.
C6_CountIsLength ==
    resp.op = "list" => resp.count = Len(resp.data)

\* C7: in a run of creates (no row deleted so far) a valid create with a url
\* not created before passes the check, every insert answers 200, and the
\* ids come out strictly increasing in the order of the inserts.
C7_IdsIncrease ==
    /\ [](deleted = 0 =>
            \A i, j \in DOMAIN log : i < j => log[i].row.id < log[j].row.id)
    /\ [][\A w \in Workers, body \in Bodies :
             (/\ create_item_check(w, body)
              /\ deleted = 0
              /\ encoded_string(body.url) \notin CreatedUrls)
             => workers'[w].pc = "create_insert"]_vars
    /\ [][\A w \in Workers :
             (create_item_insert(w) /\ deleted = 0)
             => /\ resp'.op = "create"
                /\ resp'.status = 200
                /\ \A i \in DOMAIN log : log[i].row.id < resp'.body.id]_vars

\* three creates with three different normalized urls, no delete
C7_Witness ==
    /\ deleted = 0
    /\ Len(log) = 3
    /\ Cardinality(CreatedUrls) = 3
    /\ resp.op = "create"
    /\ resp.status = 200

\* C8: both timestamps of a created bookmark are the time of its create, a
\* later create carries a later date_created, and a stored row keeps the
\* timestamps it was created with.
C8_TimestampsAreCreateTime ==
    /\ \A i \in DOMAIN log :
          /\ log[i].row.date_created = log[i].at
          /\ log[i].row.date_modified = log[i].at
    /\ \A i, j \in DOMAIN log :
          log[i].at < log[j].at => log[i].row.date_created < log[j].row.date_created
    /\ \A k \in DOMAIN rows : \E i \in DOMAIN log : log[i].row = rows[k]

\* C9: the existence check changes nothing and takes no lock, and the insert
\* does not look again: an insert whose url is stored by then still answers
\* 200 and adds a second row with that url.
C9_CheckThenInsert ==
    /\ [][\A w \in Workers, body \in Bodies :
             create_item_check(w, body) => rows' = rows]_vars
    /\ [][\A w \in Workers :
             (/\ create_item_insert(w)
              /\ encoded_string(workers[w].bookmark.url) \in RowUrls(rows))
             => LET u == encoded_string(workers[w].bookmark.url) IN
                /\ resp'.op = "create"
                /\ resp'.status = 200
                /\ CountUrl(rows', u) = CountUrl(rows, u) + 1]_vars

\* two creates of one url have both inserted: two stored rows share the url
C9_Witness ==
    /\ Len(log) = 2
    /\ deleted = 0
    /\ Len(rows) = 2
    /\ rows[1].url = rows[2].url
    /\ resp.op = "create"
    /\ resp.status = 200

\* C10: an id given to one bookmark is never given to another.
C10_IdsNeverReused ==
    \A i, j \in DOMAIN log : i # j => log[i].row.id # log[j].row.id

====
